---- MODULE Spec2Model ----
(***************************************************************************)
(* The OpenAI Codex device-code sign-in of the design note                 *)
(* (src/unnamed/part_000): requestDeviceCode, pollForDeviceAuthorization,  *)
(* exchangeDeviceCodeForTokens, the OpenAiCodexOAuthManager device-flow    *)
(* methods and the callers that drive them (CLI startOpenAiCodexAuth,      *)
(* extension openAiCodexSignIn).                                           *)
(*                                                                         *)
(* One step of the model is one task of the JavaScript event loop: the     *)
(* synchronous code of a handler together with the promise continuations   *)
(* (microtasks) it releases.  Awaited network calls, timers and awaited    *)
(* host calls end a step; their completion is a later step.                *)
(*                                                                         *)
(* Time is kept relative: instead of Date.now() and the absolute deadline  *)
(* and timer instants, each poll holds the time left until its deadline    *)
(* (deadline - Date.now(), 0 once the deadline is reached) and until its   *)
(* timer is due; a Tick of the clock counts both down.                     *)
(***************************************************************************)
EXTENDS Integers, FiniteSets, TLC

\* ------------------------------------------------------------- bounds
\* Number of sign-in attempts (startDeviceCodeFlow calls) in one run.
MaxAttempts == 2
\* The timeout counted in polling intervals (180 in the source: 15 min / 5 s).
TimeoutIntervals == 2

\* ---------------------------------------------------------- constants
\* OPENAI_CODEX_DEVICE_AUTH_CONFIG.pollingIntervalMs; one tick of the model
\* clock is one polling interval (5000 ms).
pollingIntervalMs == 1
\* OPENAI_CODEX_DEVICE_AUTH_CONFIG.timeoutMs, in ticks.
timeoutMs == TimeoutIntervals * pollingIntervalMs

\* A missing option or field (undefined).
Undefined == 0 - 1
\* a ?? b
Coalesce(a, b) == IF a = Undefined THEN b ELSE a

\* The options waitForDeviceAuthorization passes to the poll besides the
\* signal: { signal } only.
WaitOptions == [intervalMs |-> Undefined, timeoutMs |-> Undefined]
\* options?.intervalMs ?? pollingIntervalMs, options?.timeoutMs ?? timeoutMs
PollIntervalMs(options) == Coalesce(options.intervalMs, pollingIntervalMs)
PollTimeoutMs(options) == Coalesce(options.timeoutMs, timeoutMs)

\* The optional interval field of the device-code answer, in units of the
\* default polling interval (2 is 10 seconds).
ProviderIntervals == {2}

\* The sign-ins that Spec starts, and the ones SpecOneMore starts (one more).
Attempts == 1 .. MaxAttempts
Slots == 1 .. MaxAttempts + 1

\* Answers of the three endpoints that the code tells apart.
DeviceCodeStatuses == {200, 404, 500}
PollStatuses == {200, 403, 404, 500}
ExchangeStatuses == {200, 400}

\* The bodies of a successful poll answer (deviceTokenResponseSchema), with
\* distinct values in the two fields that are read; the code_challenge is not
\* read.  NoPayload: no such body.
TokenPayloads == {[authorization_code |-> 1, code_verifier |-> 2]}
NoPayload == [authorization_code |-> 0, code_verifier |-> 0]
\* The form fields code and code_verifier of the token request; NoExchange:
\* no request.
NoExchange == [code |-> 0, code_verifier |-> 0]

\* ------------------------------------------------- isRemoteEnvironment
\* The variables isRemoteEnvironment reads, and one it does not.
Indicators ==
    {"CODESPACES", "GITHUB_CODESPACE_TOKEN", "REMOTE_CONTAINERS",
     "SSH_CONNECTION", "SSH_CLIENT", "SSH_TTY"}
EnvNames == Indicators \cup {"HOME"}
EnvValues == {"unset", "empty", "set"}

\* JavaScript truthiness of process.env.X: undefined and "" are falsy.
Truthy(v) == v = "set"

\* Mutant: SSH_TTY is not looked at.
isRemoteEnvironment_NoSshTty(e) ==
    Truthy(e["CODESPACES"]) \/ Truthy(e["GITHUB_CODESPACE_TOKEN"])
    \/ Truthy(e["REMOTE_CONTAINERS"]) \/ Truthy(e["SSH_CONNECTION"])
    \/ Truthy(e["SSH_CLIENT"])

\* !!(process.env.CODESPACES || ... || process.env.SSH_TTY)
isRemoteEnvironment(e) ==
    Truthy(e["CODESPACES"]) \/ Truthy(e["GITHUB_CODESPACE_TOKEN"])
    \/ Truthy(e["REMOTE_CONTAINERS"]) \/ Truthy(e["SSH_CONNECTION"])
    \/ Truthy(e["SSH_CLIENT"]) \/ Truthy(e["SSH_TTY"])

\* The environments of the sign-in runs: a local one and a remote one.
LocalEnv == [n \in EnvNames |-> IF n = "HOME" THEN "set" ELSE "unset"]
Environments == {LocalEnv, [LocalEnv EXCEPT !["SSH_CONNECTION"] = "set"]}

\* Mutant: the device flow is taken everywhere.
SelectedFlow_AlwaysDevice(e) == "device"

\* if (isRemoteEnvironment()) { device code flow } else { browser flow }
SelectedFlow(e) == IF isRemoteEnvironment(e) THEN "device" ELSE "browser"

\* ------------------------------------------------ ThinkingBudgetSlider
DEFAULT_MIN_VALID_TOKENS == 1024

\* JavaScript truthiness of an optional number: undefined and 0 are falsy.
TruthyNumber(n) == n # Undefined /\ n # 0

\* What the model tables answer for the provider and model of the current
\* mode.  selected: both apiProvider and apiModelId are given;
\* thinkingMaxBudget: thinkingConfig.maxBudget of the model's entry (or of
\* the provider's reference entry when the model has none), Undefined when
\* there is none; maxTokens: maxTokens of the entry or of the provider's
\* default model, 0 for a provider without tables.
NoSelection ==
    [selected |-> FALSE, modelId |-> "", thinkingMaxBudget |-> Undefined, maxTokens |-> 0]
Selections ==
    {NoSelection,
     [selected |-> TRUE, modelId |-> "gemini-2.5-flash-preview-04-17",
      thinkingMaxBudget |-> 24576, maxTokens |-> 65536],
     [selected |-> TRUE, modelId |-> "claude-3-7-sonnet-20250219",
      thinkingMaxBudget |-> 64000, maxTokens |-> 8192],
     [selected |-> TRUE, modelId |-> "claude-3-5-sonnet-20241022",
      thinkingMaxBudget |-> Undefined, maxTokens |-> 8192],
     [selected |-> TRUE, modelId |-> "some-model-of-another-provider",
      thinkingMaxBudget |-> Undefined, maxTokens |-> 0]}

\* The maxBudget prop: absent, or a number.
MaxBudgetProps == {Undefined, 512, 4096}

\* getModelThinkingConfig().percentage, in tenths.
Percentage10(sel) ==
    IF ~sel.selected THEN 8
    ELSE IF sel.modelId = "gemini-2.5-flash-preview-04-17" THEN 10
    ELSE IF sel.modelId \in {"claude-3-7-sonnet-20250219",
                             "anthropic.claude-3-7-sonnet-20250219-v1:0",
                             "claude-3-7-sonnet@20250219"} THEN 5
    ELSE 8

\* getModelThinkingConfig().maxBudget
ThinkingMaxBudget(sel) == IF ~sel.selected THEN Undefined ELSE sel.thinkingMaxBudget

\* const maxTokens = useMemo(...)
maxTokens(sel) ==
    IF ~sel.selected THEN 0
    ELSE IF TruthyNumber(sel.thinkingMaxBudget) THEN sel.thinkingMaxBudget
    ELSE sel.maxTokens

\* const maxSliderValue = useMemo(...): Math.floor of the capped maximum.
maxSliderValue(maxBudget, sel) ==
    IF maxBudget # Undefined THEN maxBudget
    ELSE IF TruthyNumber(ThinkingMaxBudget(sel))
    THEN (ThinkingMaxBudget(sel) * Percentage10(sel)) \div 10
    ELSE (maxTokens(sel) * 8) \div 10

\* The values the range input (min, max, step 1) can report: the browser
\* keeps the value within [min, max], and at min when max < min.  Sampled
\* at the ends and the middle.
SliderPositions(max) ==
    IF max < DEFAULT_MIN_VALID_TOKENS THEN {DEFAULT_MIN_VALID_TOKENS}
    ELSE {DEFAULT_MIN_VALID_TOKENS, (DEFAULT_MIN_VALID_TOKENS + max) \div 2, max}

\* Every value a range input of the sampled configurations can report.
SliderValues ==
    UNION {SliderPositions(maxSliderValue(p, sel)) : p \in MaxBudgetProps, sel \in Selections}

\* The component is not rendered.
Unmounted ==
    [mounted |-> FALSE, maxBudget |-> Undefined, selection |-> NoSelection,
     thinkingBudgetTokens |-> 0, isEnabled |-> FALSE, localValue |-> 0,
     stableHandler |-> TRUE]

\* The body of the useEffect: a positive budget above maxSliderValue is
\* lowered to it, in the local state and through handleModeFieldChange.
ClampEffect(c) ==
    LET max == maxSliderValue(c.maxBudget, c.selection) IN
    IF c.thinkingBudgetTokens <= 0 THEN c
    ELSE IF c.thinkingBudgetTokens > max
    THEN [c EXCEPT !.localValue = max, !.thinkingBudgetTokens = max]
    ELSE c

\* The effects after the render that follows an event.  The effect runs
\* when one of its dependencies changed: provider, model or maxSliderValue
\* (depsChanged), or handleModeFieldChange, which changes with every render
\* unless useApiConfigurationHandlers returns a stable function.
AfterRender(c, depsChanged) ==
    IF depsChanged \/ ~c.stableHandler THEN ClampEffect(c) ELSE c

\* fetch's response.ok
ResponseOk(status) == status >= 200 /\ status <= 299

\* Whether the body of an answer parses (TRUE) or not; the body of a
\* non-success answer is not read.
Bodies(status) == IF ResponseOk(status) THEN BOOLEAN ELSE {TRUE}

VARIABLES
    host,                        \* "cli" (AuthView) or "ext" (openAiCodexSignIn)
    deviceCodeAbortController,   \* the manager's field: 0 is null, n the controller made by attempt n
    aborted,                     \* the AbortControllers whose abort() has been called
    credentials,                 \* the persisted credential set: 0 the one before any attempt, n the one of attempt n
    attempt,                     \* per sign-in: the caller's position and the locals of its poll
    deviceAuthUserCode,          \* CLI state: the code the device-auth screen renders (0 is "")
    openAiCodexDeviceCode,       \* extension: controller.openAiCodexDeviceCode.userCode (0 is null)
    step,                        \* CLI state: the AuthStep on screen
    errorMessage,                \* CLI state: the sign-in whose error.message is set (0 is none)
    env,                         \* process.env: per variable "unset", "empty" ("") or "set"
    authorizationFlow,           \* the manager's pending browser-redirect flow: 0 none, n of sign-in n
    isRemote,                    \* the value returned by a direct isRemoteEnvironment() call
    slider                       \* the ThinkingBudgetSlider component: its props, its state and the persisted budget

vars == <<host, deviceCodeAbortController, aborted, credentials, attempt,
          deviceAuthUserCode, openAiCodexDeviceCode, step, errorMessage,
          env, authorizationFlow, isRemote, slider>>
ui == <<deviceAuthUserCode, openAiCodexDeviceCode, step, errorMessage>>

\* What the presentation layer of the host shows as the user code.
ExposedUserCode == IF host = "cli" THEN deviceAuthUserCode ELSE openAiCodexDeviceCode

\* The body of the device-code answer to sign-in a: the provider issues a
\* fresh device_auth_id and user_code for every request.
DeviceCodeBody(a) == [device_auth_id |-> a, user_code |-> 10 + a]

\* ------------------------------------------------------------ attempts
Idle ==
    [pc |-> "idle", signal |-> 0, untilDeadline |-> 0, untilWake |-> 0, err |-> "none",
     outcome |-> "none", reqStatus |-> 0, polls |-> 0, pendings |-> 0,
     answer |-> 0, exchanges |-> 0, exchangeStatus |-> 0,
     result |-> NoPayload, exchangeBody |-> NoExchange, showMessage |-> "none",
     flow |-> "none", interval |-> Undefined]

\* What the endpoints have answered to the attempt, as the network saw it:
\* reqStatus the device-code status, pendings the number of 403/404 poll
\* answers, answer the first other poll status (200 with a well-formed body,
\* -200 with a malformed one), result the body of the well-formed 200 answer,
\* exchangeStatus the token-endpoint status.
PollAnswered(r, status, wellFormed, payload) ==
    IF status \in {403, 404} THEN [r EXCEPT !.pendings = @ + 1]
    ELSE IF r.answer # 0 THEN r
    ELSE [r EXCEPT !.answer = IF status = 200 /\ ~wellFormed THEN 0 - 200 ELSE status,
                   !.result = IF status = 200 /\ wellFormed THEN payload ELSE NoPayload]

ExchangeAnswered(r, status, wellFormed) ==
    [r EXCEPT !.exchangeStatus = IF status = 200 /\ ~wellFormed THEN 0 - 200 ELSE status]

\* A status that is an answer (not 0) and not a success.
NonSuccess(status) == status > 0 /\ ~ResponseOk(status)

\* The attempt has been started and has produced no outcome yet.
InFlight(r) == r.pc \in {"request", "post", "sleep", "fetch", "exchange", "save"}
\* The attempt's poll loop is running.
Polling(r) == r.pc \in {"sleep", "fetch", "exchange"}

\* AuthorizationOutcome of a thrown error.
OutcomeOf(e) ==
    CASE e = "AbortError" -> "Cancelled"
      [] e = "TimedOut" -> "Expired"
      [] OTHER -> "Failed"

\* The call has returned or thrown: its locals are gone.
Finished(r) ==
    [r EXCEPT !.pc = "done", !.signal = 0, !.untilDeadline = 0, !.untilWake = 0,
              !.result = NoPayload, !.exchangeBody = NoExchange, !.interval = Undefined]

\* The promise of the attempt rejects with error e.
Throw(r, e) == [Finished(r) EXCEPT !.err = e, !.outcome = OutcomeOf(e)]

\* -------------------------------------------------- requestDeviceCode
\* Mutant: the 404 case is not told apart.
DeviceCodeError_No404(status) ==
    IF ~ResponseOk(status) THEN "RequestFailed" ELSE "none"

DeviceCodeError(status) ==
    IF status = 404 THEN "NotEnabled"
    ELSE IF ~ResponseOk(status) THEN "RequestFailed"
    ELSE "none"

\* ----------------------------------------- pollForDeviceAuthorization
\* Mutant: 403 is not treated as pending.
IsPending_Only404(status) == status = 404

\* 403/404: the user has not authorized yet.
IsPending(status) == status = 403 \/ status = 404

\* Mutant: the loop does not look at the deadline.
LoopCondition_NoDeadline(untilDeadline) == TRUE

\* while (Date.now() < deadline)
LoopCondition(untilDeadline) == untilDeadline > 0

\* Mutant: the sleep's promise is made without a timer that resolves it.
LoopTop_NoTimer(r, ab) ==
    IF ~LoopCondition(r.untilDeadline) THEN Throw(r, "TimedOut")
    ELSE IF r.signal \in ab THEN Throw(r, "AbortError")
    ELSE [r EXCEPT !.pc = "sleep", !.untilWake = Undefined]

\* The head of one iteration: the loop condition, throwIfAborted, setTimeout.
LoopTop(r, ab) ==
    IF ~LoopCondition(r.untilDeadline) THEN Throw(r, "TimedOut")
    ELSE IF r.signal \in ab THEN Throw(r, "AbortError")
    ELSE [r EXCEPT !.pc = "sleep", !.untilWake = PollIntervalMs(WaitOptions)]

\* The timer has fired: fetch(deviceTokenEndpoint, {signal}).  A fetch on an
\* aborted signal rejects without sending a request.
IssuePoll(r, ab) ==
    IF r.signal \in ab THEN Throw(r, "AbortError")
    ELSE [r EXCEPT !.pc = "fetch", !.polls = @ + 1]

\* exchangeDeviceCodeForTokens(authorizationCode, codeVerifier): the form
\* fields of the token request.
ExchangeBody_Swapped(authorizationCode, codeVerifier) ==
    [code |-> codeVerifier, code_verifier |-> authorizationCode]

ExchangeBody(authorizationCode, codeVerifier) ==
    [code |-> authorizationCode, code_verifier |-> codeVerifier]

\* return exchangeDeviceCodeForTokens(result.authorization_code,
\* result.code_verifier): the loop is left, its deadline and timer are not
\* read again.
StartExchange(r) ==
    [r EXCEPT !.pc = "exchange", !.exchanges = @ + 1, !.untilDeadline = 0, !.untilWake = 0,
              !.exchangeBody = ExchangeBody(r.result.authorization_code, r.result.code_verifier)]

\* Mutant: the failure is reported but the loop is not left.
PollFailed_NoThrow(r) ==
    [r EXCEPT !.pc = "sleep", !.err = "PollFailed", !.outcome = "Failed"]

\* throw new Error(`Device token polling failed: ${response.status}`)
PollFailed(r) == Throw(r, "PollFailed")

\* Mutant: the !response.ok test is missing, a failure status is parsed.
OnPollResponse_NoOkTest(r, status, wellFormed, ab) ==
    IF IsPending(status) THEN LoopTop(r, ab)
    ELSE IF ~wellFormed THEN Throw(r, "MalformedToken")
    ELSE StartExchange(r)

\* Mutant: the exchange is called without "return", the loop goes on.
OnPollResponse_NoReturn(r, status, wellFormed, ab) ==
    IF IsPending(status) THEN LoopTop(r, ab)
    ELSE IF ~ResponseOk(status) THEN PollFailed(r)
    ELSE IF ~wellFormed THEN Throw(r, "MalformedToken")
    ELSE LoopTop([r EXCEPT !.exchanges = @ + 1], ab)

\* The rest of the iteration, from the poll response on.
OnPollResponse(r, status, wellFormed, ab) ==
    IF IsPending(status) THEN LoopTop(r, ab)
    ELSE IF ~ResponseOk(status) THEN PollFailed(r)
    ELSE IF ~wellFormed THEN Throw(r, "MalformedToken")
    ELSE StartExchange(r)

\* The call of pollForDeviceAuthorization up to its first await.
StartPoll(r, s, ab) ==
    LoopTop([r EXCEPT !.signal = s, !.untilDeadline = PollTimeoutMs(WaitOptions)], ab)

\* ---------------------------------------- exchangeDeviceCodeForTokens
\* The error the exchange throws ("none": it returns the credentials).
ExchangeError(status, wellFormed) ==
    IF ~ResponseOk(status) THEN "ExchangeFailed"
    ELSE IF ~wellFormed THEN "MalformedExchange"
    ELSE "none"

\* ------------------------------------------- OpenAiCodexOAuthManager
\* Mutant: the guard is missing; the poll is started on the signal of no
\* controller.
WaitForDeviceAuthorization_NoGuard(r, ctrl, ab) == StartPoll(r, ctrl, ab)

\* waitForDeviceAuthorization up to its first await.
WaitForDeviceAuthorization(r, ctrl, ab) ==
    IF ctrl = 0 THEN Throw(r, "NoPendingFlow")
    ELSE StartPoll(r, ctrl, ab)

\* Mutant: saveCredentials runs whatever the poll's result (a finally).
OnPollSettled_SaveAlways(r, e) == [r EXCEPT !.pc = "save"]

\* The poll's promise has settled with the exchange's result: on credentials
\* waitForDeviceAuthorization goes on to saveCredentials, an error passes
\* through it to the caller.
OnPollSettled(r, e) ==
    IF e # "none" THEN Throw(r, e)
    ELSE [r EXCEPT !.pc = "save"]

\* Whether the caller's error handler for this phase calls
\* cancelDeviceCodeFlow: both CLI catch blocks do, and so does the .catch of
\* the extension's background wait; the extension's outer catch and its
\* browser flow's handlers are elided.
CatchCancels(phase) == host = "cli" \/ phase = "wait"

\* Mutant: the controller is aborted but the field is not nulled.
CancelDeviceCodeFlow_KeepField ==
    /\ aborted' = IF deviceCodeAbortController = 0 THEN aborted
                  ELSE aborted \cup {deviceCodeAbortController}
    /\ deviceCodeAbortController' = deviceCodeAbortController

\* cancelDeviceCodeFlow(): abort() the controller in the field and null it.
CancelDeviceCodeFlow ==
    /\ aborted' = IF deviceCodeAbortController = 0 THEN aborted
                  ELSE aborted \cup {deviceCodeAbortController}
    /\ deviceCodeAbortController' = 0

\* errorMessage.includes("timed out"): of the errors of the wait, only the
\* poll's "Device code authentication timed out (15 minutes)".
IncludesTimedOut(e) == e = "TimedOut"

\* The extension's .catch shows an ERROR message unless the error timed out.
ErrorReported(e) == ~IncludesTimedOut(e)

\* Attempt a moves to r; when r is a rejection the caller's handler runs:
\* the CLI's catch block (cancelDeviceCodeFlow, setErrorMessage,
\* setStep("error")) or the .catch of the extension's background wait.
Commit(a, r, phase) ==
    IF r.pc = "done" /\ r.err # "none" /\ CatchCancels(phase)
    THEN /\ CancelDeviceCodeFlow
         /\ IF host = "cli"
            THEN /\ attempt' = [attempt EXCEPT ![a] = r]
                 /\ authorizationFlow' = 0
                 /\ errorMessage' = a
                 /\ step' = "error"
                 /\ UNCHANGED openAiCodexDeviceCode
            ELSE /\ attempt' = [attempt EXCEPT ![a] =
                         [r EXCEPT !.showMessage = IF ErrorReported(r.err) THEN "ERROR" ELSE "none"]]
                 /\ openAiCodexDeviceCode' = 0
                 /\ UNCHANGED <<step, errorMessage, authorizationFlow>>
    ELSE /\ attempt' = [attempt EXCEPT ![a] = r]
         /\ UNCHANGED <<deviceCodeAbortController, aborted, openAiCodexDeviceCode,
                         step, errorMessage, authorizationFlow>>

\* A poll request is in flight on an aborted signal: its rejection is a
\* microtask, which runs before any other task.
PendingAbort == \E a \in Slots : attempt[a].pc = "fetch" /\ attempt[a].signal \in aborted

\* ------------------------------------------------------------- actions
InitIn(environments) ==
    /\ host \in {"cli", "ext"}
    /\ deviceCodeAbortController = 0
    /\ aborted = {}
    /\ credentials = 0
    /\ attempt = [a \in Slots |-> Idle]
    /\ deviceAuthUserCode = 0
    /\ openAiCodexDeviceCode = 0
    /\ step = "menu"
    /\ errorMessage = 0
    /\ env \in environments
    /\ authorizationFlow = 0
    /\ isRemote = "none"
    /\ slider = Unmounted

Init == InitIn(Environments)

\* The caller's sign-in up to its first await: the CLI shows the device-auth
\* step; startDeviceCodeFlow() cancels the prior flow, makes a controller and
\* sends the device-code request.
StartDeviceCodeFlow(a) ==
    /\ ~PendingAbort
    /\ SelectedFlow(env) = "device"
    /\ attempt[a].pc = "idle"
    /\ \A b \in Slots : b < a => attempt[b].pc # "idle"
    /\ aborted' = IF deviceCodeAbortController = 0 THEN aborted
                  ELSE aborted \cup {deviceCodeAbortController}
    /\ deviceCodeAbortController' = a
    /\ attempt' = [attempt EXCEPT ![a].pc = "request", ![a].flow = "device"]
    /\ step' = IF host = "cli" THEN "openai_codex_device_auth" ELSE step
    /\ UNCHANGED <<slider, host, credentials, deviceAuthUserCode, openAiCodexDeviceCode, errorMessage,
                   env, authorizationFlow, isRemote>>

\* The caller's sign-in in a local environment up to its first await:
\* startAuthorizationFlow(), openExternal(authUrl).
StartAuthorizationFlow(a) ==
    /\ SelectedFlow(env) = "browser"
    /\ attempt[a].pc = "idle"
    /\ \A b \in Slots : b < a => attempt[b].pc # "idle"
    /\ authorizationFlow' = a
    /\ attempt' = [attempt EXCEPT ![a].pc = "open", ![a].flow = "browser"]
    /\ UNCHANGED <<slider, host, deviceCodeAbortController, aborted, credentials, env, isRemote>>
    /\ UNCHANGED ui

\* openExternal has settled: on success the caller goes on to
\* waitForCallback(), a rejection goes to the caller's handler.
OpenExternalSettled(a, ok) ==
    /\ attempt[a].pc = "open"
    /\ Commit(a, IF ok THEN [attempt[a] EXCEPT !.pc = "callback"]
                 ELSE Throw(attempt[a], "OpenFailed"), "browser")
    /\ UNCHANGED <<slider, host, credentials, deviceAuthUserCode, env, isRemote>>

\* waitForCallback() has settled: with the credentials of the redirect, or
\* with an error.
CallbackSettled(a, ok) ==
    /\ attempt[a].pc = "callback"
    /\ IF ok
       THEN /\ attempt' = [attempt EXCEPT ![a] = [Finished(@) EXCEPT !.outcome = "Authenticated"]]
            /\ credentials' = a
            /\ authorizationFlow' = IF authorizationFlow = a THEN 0 ELSE authorizationFlow
            /\ UNCHANGED <<deviceCodeAbortController, aborted>>
            /\ UNCHANGED ui
       ELSE /\ Commit(a, Throw(attempt[a], "CallbackFailed"), "browser")
            /\ UNCHANGED <<credentials, deviceAuthUserCode>>
    /\ UNCHANGED <<slider, host, env, isRemote>>

\* Mutant: the device_auth_id is shown in place of the user_code.
ShownUserCode_DeviceAuthId(deviceCode) == deviceCode.device_auth_id

\* setDeviceAuthUserCode(deviceCode.user_code) /
\* controller.openAiCodexDeviceCode = {userCode: deviceCode.user_code, ...}
ShownUserCode(deviceCode) == deviceCode.user_code

\* The device-code endpoint answers; interval is the optional field of a
\* well-formed body, which the caller holds in deviceCode.
DeviceCodeResponse(a, status, wellFormed, interval) ==
    /\ attempt[a].pc = "request"
    /\ ~PendingAbort
    /\ LET r == [attempt[a] EXCEPT !.reqStatus = status,
                                   !.interval = IF ResponseOk(status) /\ wellFormed
                                                THEN interval ELSE Undefined]
           e == DeviceCodeError(status)
       IN IF e # "none"
          THEN Commit(a, Throw(r, e), "start") /\ UNCHANGED deviceAuthUserCode
          ELSE IF ~wellFormed
          THEN Commit(a, Throw(r, "MalformedDeviceCode"), "start") /\ UNCHANGED deviceAuthUserCode
          ELSE IF host = "ext"
          THEN /\ attempt' = [attempt EXCEPT ![a] = [r EXCEPT !.pc = "post"]]
               /\ openAiCodexDeviceCode' = ShownUserCode(DeviceCodeBody(a))
               /\ UNCHANGED <<deviceCodeAbortController, aborted, deviceAuthUserCode,
                               step, errorMessage, authorizationFlow>>
          ELSE /\ deviceAuthUserCode' = ShownUserCode(DeviceCodeBody(a))
               /\ Commit(a, WaitForDeviceAuthorization(r, deviceCodeAbortController, aborted), "wait")
    /\ UNCHANGED <<slider, host, credentials, env, isRemote>>

\* Extension: postStateToWebview() has resolved; the background wait starts.
PostStateDone(a) ==
    /\ attempt[a].pc = "post"
    /\ ~PendingAbort
    /\ Commit(a, WaitForDeviceAuthorization(attempt[a], deviceCodeAbortController, aborted), "wait")
    /\ UNCHANGED <<slider, host, credentials, deviceAuthUserCode, env, isRemote>>

\* The inter-poll timer fires.
TimerFires(a) ==
    /\ attempt[a].pc = "sleep"
    /\ ~PendingAbort
    /\ attempt[a].untilWake = 0
    /\ Commit(a, IssuePoll(attempt[a], aborted), "wait")
    /\ UNCHANGED <<slider, host, credentials, deviceAuthUserCode, env, isRemote>>

\* The poll endpoint answers.
PollResponse(a, status, wellFormed, payload) ==
    /\ attempt[a].pc = "fetch"
    /\ ~PendingAbort
    /\ Commit(a, OnPollResponse(PollAnswered(attempt[a], status, wellFormed, payload),
                                 status, wellFormed, aborted), "wait")
    /\ UNCHANGED <<slider, host, credentials, deviceAuthUserCode, env, isRemote>>

\* The poll request in flight is rejected because its signal was aborted.
FetchAborted(a) ==
    /\ attempt[a].pc = "fetch"
    /\ attempt[a].signal \in aborted
    /\ Commit(a, Throw(attempt[a], "AbortError"), "wait")
    /\ UNCHANGED <<slider, host, credentials, deviceAuthUserCode, env, isRemote>>

\* The token endpoint answers.
ExchangeResponse(a, status, wellFormed) ==
    /\ attempt[a].pc = "exchange"
    /\ ~PendingAbort
    /\ Commit(a, OnPollSettled(ExchangeAnswered(attempt[a], status, wellFormed),
                                ExchangeError(status, wellFormed)), "wait")
    /\ UNCHANGED <<slider, host, credentials, deviceAuthUserCode, env, isRemote>>

\* saveCredentials() has resolved: the rest of waitForDeviceAuthorization,
\* and the extension's .then.
SaveCredentials(a) ==
    /\ attempt[a].pc = "save"
    /\ ~PendingAbort
    /\ credentials' = a
    /\ deviceCodeAbortController' = 0
    /\ attempt' = [attempt EXCEPT ![a] =
           [Finished(@) EXCEPT !.outcome = "Authenticated",
                               !.showMessage = IF host = "ext" THEN "INFORMATION" ELSE "none"]]
    /\ openAiCodexDeviceCode' = IF host = "ext" THEN 0 ELSE openAiCodexDeviceCode
    /\ UNCHANGED <<slider, host, aborted, deviceAuthUserCode, step, errorMessage,
                   env, authorizationFlow, isRemote>>

\* The user cancels: Esc in the CLI's device-auth step (goBack), which
\* returns to the menu; in the extension a cancelDeviceCodeFlow() call.
Cancel ==
    /\ ~PendingAbort
    /\ host = "cli" => step = "openai_codex_device_auth"
    /\ CancelDeviceCodeFlow
    /\ step' = IF host = "cli" THEN "menu" ELSE step
    /\ UNCHANGED <<slider, host, credentials, attempt, deviceAuthUserCode, openAiCodexDeviceCode,
                   errorMessage, env, authorizationFlow, isRemote>>

\* One polling interval of time passes.
Elapse(r) ==
    [r EXCEPT !.untilDeadline = IF @ > 0 THEN @ - 1 ELSE @,
              !.untilWake = IF @ > 0 THEN @ - 1 ELSE @]

Tick ==
    /\ ~PendingAbort
    /\ attempt' = [a \in Slots |-> Elapse(attempt[a])]
    /\ attempt' # attempt
    /\ UNCHANGED <<slider, host, deviceCodeAbortController, aborted, credentials,
                   env, authorizationFlow, isRemote>>
    /\ UNCHANGED ui

Next ==
    \/ \E a \in Attempts : StartDeviceCodeFlow(a)
    \/ \E a \in Attempts : StartAuthorizationFlow(a)
    \/ \E a \in Slots, ok \in BOOLEAN : OpenExternalSettled(a, ok)
    \/ \E a \in Slots, ok \in BOOLEAN : CallbackSettled(a, ok)
    \/ \E a \in Slots, s \in DeviceCodeStatuses : \E w \in Bodies(s) :
          DeviceCodeResponse(a, s, w, Undefined)
    \/ \E a \in Slots : PostStateDone(a)
    \/ \E a \in Slots : TimerFires(a)
    \/ \E a \in Slots, s \in PollStatuses : \E w \in Bodies(s), p \in TokenPayloads :
          PollResponse(a, s, w, p)
    \/ \E a \in Slots : FetchAborted(a)
    \/ \E a \in Slots, s \in ExchangeStatuses : \E w \in Bodies(s) :
          ExchangeResponse(a, s, w)
    \/ \E a \in Slots : SaveCredentials(a)
    \/ Cancel
    \/ Tick

Spec == Init /\ [][Next]_vars

\* The scheduling the runtime guarantees: the clock advances, a due timer
\* fires, and every network call that was sent returns (an answer, or the
\* rejection of an aborted request).
Fairness ==
    /\ WF_vars(Tick)
    /\ \A a \in Slots :
          /\ WF_vars(TimerFires(a))
          /\ WF_vars(FetchAborted(a))
          /\ WF_vars(\E s \in PollStatuses : \E w \in Bodies(s), p \in TokenPayloads :
                        PollResponse(a, s, w, p))
          /\ WF_vars(\E s \in ExchangeStatuses : \E w \in Bodies(s) :
                        ExchangeResponse(a, s, w))

\* One sign-in on its own: the caller starts once, and the user may cancel
\* at any time.
NextOnce ==
    \/ StartDeviceCodeFlow(1)
    \/ StartAuthorizationFlow(1)
    \/ \E ok \in BOOLEAN : OpenExternalSettled(1, ok)
    \/ \E ok \in BOOLEAN : CallbackSettled(1, ok)
    \/ \E s \in DeviceCodeStatuses : \E w \in Bodies(s) :
          DeviceCodeResponse(1, s, w, Undefined)
    \/ PostStateDone(1)
    \/ TimerFires(1)
    \/ \E s \in PollStatuses : \E w \in Bodies(s), p \in TokenPayloads :
          PollResponse(1, s, w, p)
    \/ FetchAborted(1)
    \/ \E s \in ExchangeStatuses : \E w \in Bodies(s) :
          ExchangeResponse(1, s, w)
    \/ SaveCredentials(1)
    \/ Cancel
    \/ Tick

SpecFair == Init /\ [][NextOnce]_vars /\ Fairness

\* The same program with one more sign-in than Spec allows.
StartOneMore == StartDeviceCodeFlow(MaxAttempts + 1)

NextOneMore == Next \/ StartOneMore

SpecOneMore == Init /\ [][NextOneMore]_vars

\* The same program with a provider that states a polling interval in its
\* device-code answers.
DeviceCodeResponseWithInterval ==
    \E a \in Slots, i \in ProviderIntervals : DeviceCodeResponse(a, 200, TRUE, i)

NextProvider == Next \/ DeviceCodeResponseWithInterval

SpecProvider == Init /\ [][NextProvider]_vars

\* A call of waitForDeviceAuthorization() on a manager that holds no
\* controller, by a caller that has not called startDeviceCodeFlow() and
\* has no handler of its own.
WaitWithoutFlow(a) ==
    /\ ~PendingAbort
    /\ deviceCodeAbortController = 0
    /\ attempt[a].pc = "idle"
    /\ \A b \in Slots : b < a => attempt[b].pc # "idle"
    /\ attempt' = [attempt EXCEPT ![a] =
           WaitForDeviceAuthorization([@ EXCEPT !.flow = "device"],
                                      deviceCodeAbortController, aborted)]
    /\ UNCHANGED <<slider, host, deviceCodeAbortController, aborted, credentials,
                   env, authorizationFlow, isRemote>>
    /\ UNCHANGED ui

NextWait == Next \/ \E a \in Attempts : WaitWithoutFlow(a)

SpecWait == Init /\ [][NextWait]_vars

\* isRemoteEnvironment on its own, over every environment: each of the
\* variables unset, empty or set.
AllEnvironments == [EnvNames -> EnvValues]

InitEnv == InitIn(AllEnvironments)

\* A call of isRemoteEnvironment().
CallIsRemoteEnvironment ==
    /\ isRemote' = IF isRemoteEnvironment(env) THEN "true" ELSE "false"
    /\ UNCHANGED <<slider, host, deviceCodeAbortController, aborted, credentials, attempt,
                   env, authorizationFlow>>
    /\ UNCHANGED ui

NextEnv == CallIsRemoteEnvironment

SpecEnv == InitEnv /\ [][NextEnv]_vars

\* The ThinkingBudgetSlider on its own.  It mounts with the props and the
\* configuration of the mode: the persisted budget is 0 or a value the
\* slider of that model allows; useState takes isEnabled and localValue
\* from it, and the first effect has run.
InitSlider ==
    /\ host = "ext"
    /\ deviceCodeAbortController = 0
    /\ aborted = {}
    /\ credentials = 0
    /\ attempt = [a \in Slots |-> Idle]
    /\ deviceAuthUserCode = 0
    /\ openAiCodexDeviceCode = 0
    /\ step = "menu"
    /\ errorMessage = 0
    /\ env = LocalEnv
    /\ authorizationFlow = 0
    /\ isRemote = "none"
    /\ \E p \in MaxBudgetProps, sel \in Selections, stable \in BOOLEAN :
         \E b \in {0} \cup {v \in SliderPositions(maxSliderValue(p, sel)) :
                               v <= maxSliderValue(p, sel)} :
            slider = [mounted |-> TRUE, maxBudget |-> p, selection |-> sel,
                      thinkingBudgetTokens |-> b, isEnabled |-> b > 0,
                      localValue |-> b, stableHandler |-> stable]

\* What the slider's actions leave alone.
UnchangedBySlider ==
    UNCHANGED <<host, deviceCodeAbortController, aborted, credentials, attempt,
                deviceAuthUserCode, openAiCodexDeviceCode, step, errorMessage,
                env, authorizationFlow, isRemote>>

\* handleToggleChange: the checkbox reports its new state.
HandleToggleChange ==
    /\ slider.mounted
    /\ LET isChecked == ~slider.isEnabled
           newValue == IF isChecked THEN DEFAULT_MIN_VALID_TOKENS ELSE 0
       IN slider' = AfterRender([slider EXCEPT !.isEnabled = isChecked,
                                               !.localValue = newValue,
                                               !.thinkingBudgetTokens = newValue], FALSE)
    /\ UnchangedBySlider

\* handleSliderChange: the range input (rendered when enabled) reports a
\* new value.
HandleSliderChange(value) ==
    /\ slider.mounted /\ slider.isEnabled
    /\ value \in SliderPositions(maxSliderValue(slider.maxBudget, slider.selection))
    /\ value # slider.localValue
    /\ slider' = AfterRender([slider EXCEPT !.localValue = value], FALSE)
    /\ UnchangedBySlider

\* handleSliderComplete (mouse up, touch end): localValue is persisted.
HandleSliderComplete ==
    /\ slider.mounted /\ slider.isEnabled
    /\ slider' = AfterRender([slider EXCEPT !.thinkingBudgetTokens = slider.localValue], FALSE)
    /\ UnchangedBySlider

\* The provider or the model of the mode changes: the memos are recomputed
\* and the effect runs.
ModelChange(sel) ==
    /\ slider.mounted
    /\ sel # slider.selection
    /\ slider' = AfterRender([slider EXCEPT !.selection = sel], TRUE)
    /\ UnchangedBySlider

NextSlider ==
    \/ HandleToggleChange
    \/ \E v \in SliderValues : HandleSliderChange(v)
    \/ HandleSliderComplete
    \/ \E sel \in Selections : ModelChange(sel)

SpecSlider == InitSlider /\ [][NextSlider]_vars

\* =============================================================== claims

\* C1: once the poll has received a success payload (200, well-formed) it
\* issues no further poll, makes exactly one exchange call, and when that
\* exchange returns credentials the poll ends with them (no error, the
\* attempt ends Authenticated); no exchange is made, and no device-flow
\* sign-in ends Authenticated, without a success payload.
C1_SuccessOneExchange ==
    \A a \in Slots :
        LET r == attempt[a] IN
        /\ r.exchanges <= 1
        /\ r.answer # 200 =>
              r.exchanges = 0 /\ (r.flow = "device" => r.outcome # "Authenticated")
        /\ r.answer = 200 =>
            /\ r.exchanges = 1
            /\ r.polls = r.pendings + 1
            /\ r.pc \in {"exchange", "save", "done"}
            /\ r.exchangeStatus = 200 =>
                 r.pc \in {"save", "done"} /\ r.err = "none"
                 /\ (r.pc = "done" => r.outcome = "Authenticated")

\* An attempt got pending answers, then the success payload, and its
\* credentials are the persisted ones.
C1_Witness ==
    \E a \in Slots :
        /\ attempt[a].answer = 200 /\ attempt[a].pendings >= 1
        /\ attempt[a].outcome = "Authenticated" /\ credentials = a

\* C2: while every poll answer so far is pending (403 or 404) the poll keeps
\* looping; it ends only as Expired with the deadline reached or as
\* Cancelled with its signal aborted.
C2_PendingKeepsLooping ==
    [][\A a \in Slots :
         LET r == attempt[a]
             r2 == attempt'[a]
         IN (r.pc \in {"sleep", "fetch"} /\ r2.answer = 0) =>
              \/ r2.pc \in {"sleep", "fetch"}
              \/ r2.pc = "done" /\ r2.outcome = "Expired" /\ r.untilDeadline = 0
              \/ r2.pc = "done" /\ r2.outcome = "Cancelled" /\ r.signal \in aborted]_vars

\* A poll sleeps again after a pending answer, uncancelled.
C2_Witness ==
    \E a \in Slots :
        /\ attempt[a].pendings >= 1 /\ attempt[a].pc = "sleep"
        /\ attempt[a].signal \notin aborted /\ attempt[a].untilDeadline > 0

\* C3: a cancel interrupts the inter-poll sleep at once (no poll whose signal
\* is aborted is still waiting for its timer when the cancelling task ends),
\* and no poll or exchange request is issued after the cancel.
C3_CancelInterruptsSleep ==
    [][\A a \in Slots :
         LET r == attempt[a]
             r2 == attempt'[a]
         IN /\ (r2.signal # 0 /\ r2.signal \in aborted') => r2.pc # "sleep"
            /\ (r.signal # 0 /\ r.signal \in aborted) =>
                 r2.polls = r.polls /\ r2.exchanges = r.exchanges]_vars

\* C4: at most one poll loop (sleeping, polling or exchanging) at any time.
C4_AtMostOnePoll ==
    Cardinality({a \in Slots : Polling(attempt[a])}) <= 1

\* C5: when a device-code request has been issued for an attempt, every
\* earlier attempt still in flight has had its controller aborted (checked
\* with three sign-ins, under SpecOneMore).
C5_StartCancelsPrior ==
    \A a, b \in Slots :
        (a < b /\ attempt[b].pc # "idle" /\ InFlight(attempt[a])) => a \in aborted

\* C6: an attempt has an outcome exactly when its call has ended, the
\* outcome never changes, and after it the attempt does nothing more (no
\* poll request, no exchange).
C6_ExactlyOneOutcome ==
    [][\A a \in Slots :
         LET r == attempt[a]
             r2 == attempt'[a]
         IN /\ (r2.pc = "done") <=> (r2.outcome # "none")
            /\ r.outcome # "none" => r2 = r]_vars

\* An attempt has failed after polling while another attempt polls on.
C6_Witness ==
    \E a, b \in Slots :
        /\ attempt[a].outcome = "Failed" /\ attempt[a].polls >= 1
        /\ attempt[b].pc = "fetch"

\* The cancel reached the attempt: the controller it depends on was aborted
\* while it was in flight.
CancelledInFlight(a) ==
    /\ InFlight(attempt[a])
    /\ IF attempt[a].signal = 0 THEN a \in aborted ELSE attempt[a].signal \in aborted

\* The errors that are an endpoint's failure answer.
EndpointFailures ==
    {"NotEnabled", "RequestFailed", "MalformedDeviceCode", "PollFailed",
     "MalformedToken", "ExchangeFailed", "MalformedExchange"}

\* C7: an attempt cancelled while in flight (awaiting the device code, the
\* user action or the exchange) never goes on to saveCredentials, and it
\* ends as Cancelled.  Stated in the form most favourable to the code: an
\* attempt that an endpoint's failure answer ends may end Failed.
C7_CancelledNeverPersists ==
    [][\A a \in Slots :
         CancelledInFlight(a) =>
            /\ attempt'[a].pc # "save"
            /\ credentials' = a => credentials = a
            /\ (attempt'[a].pc = "done" /\ attempt'[a].err \notin EndpointFailures) =>
                 attempt'[a].outcome = "Cancelled"]_vars

\* C8: when the token exchange answers a non-success status the attempt
\* ends Failed in that step, the step leaves the persisted credentials as
\* they were, and the attempt never saves.
C8_ExchangeFailureKeepsCredentials ==
    [][\A a \in Slots :
         LET r == attempt[a]
             r2 == attempt'[a]
         IN /\ (r.pc = "exchange" /\ NonSuccess(r2.exchangeStatus)) =>
                 r2.pc = "done" /\ r2.outcome = "Failed" /\ credentials' = credentials
            /\ NonSuccess(r.exchangeStatus) =>
                 r2 = r /\ credentials' # a]_vars

\* The second attempt's exchange failed and the credentials persisted by the
\* first are still there.
C8_Witness ==
    /\ attempt[2].exchangeStatus = 400 /\ attempt[2].outcome = "Failed"
    /\ credentials = 1

C10_DeviceCodeErrors ==
    \A a \in Slots :
        LET r == attempt[a] IN
        NonSuccess(r.reqStatus) =>
            /\ r.pc = "done" /\ r.outcome = "Failed"
            /\ r.err = (IF r.reqStatus = 404 THEN "NotEnabled" ELSE "RequestFailed")
            /\ r.polls = 0 /\ r.exchanges = 0

\* One attempt was refused with 404, another with 500.
C10_Witness ==
    /\ attempt[1].reqStatus = 404 /\ attempt[1].err = "NotEnabled"
    /\ attempt[2].reqStatus = 500 /\ attempt[2].err = "RequestFailed"

\* C11: only the pending statuses 403 and 404 let the poll loop go on: an
\* attempt whose poll was answered any other non-success status has ended
\* Failed with the polling error, that answer was its last poll, and it made
\* no exchange; every continuation of the loop follows a pending answer.
C11_OtherStatusesFatal ==
    \A a \in Slots :
        LET r == attempt[a] IN
        /\ NonSuccess(r.answer) =>
              /\ r.pc = "done" /\ r.outcome = "Failed" /\ r.err = "PollFailed"
              /\ r.polls = r.pendings + 1
              /\ r.exchanges = 0
        /\ r.pc \in {"sleep", "fetch"} => r.answer = 0 /\ r.polls <= r.pendings + 1

\* A poll was answered 403, then 500.
C11_Witness ==
    \E a \in Slots :
        attempt[a].answer = 500 /\ attempt[a].pendings >= 1 /\ attempt[a].outcome = "Failed"

\* C12: when the poll endpoint has answered pending n times and then a
\* success payload, n+1 poll requests were made, exactly one exchange call
\* follows, and the code and code_verifier of that call are the
\* authorization_code and code_verifier of the payload.
C12_PendingsThenSuccess ==
    \A a \in Slots :
        LET r == attempt[a] IN
        /\ r.answer = 200 => r.polls = r.pendings + 1 /\ r.exchanges = 1
        /\ r.pc \in {"exchange", "save"} =>
              /\ r.answer = 200 /\ r.result \in TokenPayloads
              /\ r.exchangeBody.code = r.result.authorization_code
              /\ r.exchangeBody.code_verifier = r.result.code_verifier
        /\ r.pc \notin {"exchange", "save"} => r.exchangeBody = NoExchange

\* The exchange is in flight after one pending answer and a success payload.
C12_Witness ==
    \E a \in Slots :
        /\ attempt[a].pc = "exchange" /\ attempt[a].pendings >= 1 /\ attempt[a].polls = 2
        /\ attempt[a].result = [authorization_code |-> 1, code_verifier |-> 2]
        /\ attempt[a].exchangeBody = [code |-> 1, code_verifier |-> 2]

\* The session state AwaitingUserAction: the device code has been received
\* and the provider has not reported success yet.
AwaitingUserAction(r) == r.pc \in {"post", "sleep", "fetch"}

\* C13: when the device-code endpoint answers a sign-in with a device_auth_id
\* and a user_code, the user code exposed to the presentation layer is the
\* user_code of that answer, and unless the flow was cancelled meanwhile
\* (the manager holds no controller) the sign-in is in AwaitingUserAction:
\* at once, and again when the extension's state post has resolved.
C13_UserCodeExposed ==
    [][\A a \in Slots :
         LET r == attempt[a]
             r2 == attempt'[a]
         IN /\ (r.pc = "request" /\ r2.reqStatus = 200 /\ r2.err # "MalformedDeviceCode") =>
                 /\ ExposedUserCode' = DeviceCodeBody(a).user_code
                 /\ deviceCodeAbortController # 0 => AwaitingUserAction(r2)
            /\ (r.pc = "post" /\ r2.pc # "post" /\ deviceCodeAbortController # 0) =>
                 r2.pc = "sleep"]_vars

\* The second sign-in awaits the user with its own user code on display.
C13_Witness ==
    /\ attempt[2].pc = "sleep" /\ attempt[2].reqStatus = 200
    /\ ExposedUserCode = DeviceCodeBody(2).user_code

\* C14: cancelDeviceCodeFlow is idempotent.  A user's cancel leaves the
\* manager without a controller, and a cancel that finds no controller (the
\* session is idle, already cancelled, or ended with its handle released)
\* changes nothing of the manager, of the credentials or of any attempt; no
\* cancel starts a request or changes an attempt.
C14_CancelIdempotent ==
    [][Cancel =>
         /\ deviceCodeAbortController' = 0
         /\ attempt' = attempt /\ credentials' = credentials
         /\ deviceCodeAbortController = 0 => aborted' = aborted]_vars

\* A cancel has acted and the session is terminal: the only sign-in of the
\* extension has ended Cancelled and the manager holds no controller, so
\* any further cancel finds none.
C14_Witness ==
    /\ host = "ext"
    /\ attempt[1].outcome = "Cancelled" /\ attempt[2].pc = "idle"
    /\ 1 \in aborted /\ deviceCodeAbortController = 0

\* C15: a user's cancel is not reported as an error.  With a single sign-in
\* the only abort is the user's cancel: when that sign-in ends with the abort
\* error, the CLI does not enter its error step or set an error message, and
\* the extension shows no ERROR message.
C15_CancelNotAnError ==
    [][\A a \in Slots :
         LET r == attempt[a]
             r2 == attempt'[a]
         IN (/\ r.pc # "done" /\ r2.pc = "done" /\ r2.err = "AbortError"
             /\ \A b \in Slots \ {a} : attempt[b].pc = "idle") =>
              /\ step' # "error"
              /\ errorMessage' = errorMessage
              /\ r2.showMessage # "ERROR"]_vars

\* C16: every sign-in starts the device flow exactly when
\* isRemoteEnvironment() is true and the browser-redirect flow otherwise,
\* never both; and when a sign-in of the CLI fails, its handler leaves the
\* manager with neither a browser-flow handle nor a device-flow handle.
C16_FlowSelection ==
    [][\A a \in Slots :
         LET r == attempt[a]
             r2 == attempt'[a]
         IN /\ (r.pc = "idle" /\ r2.pc # "idle") =>
                 IF isRemoteEnvironment(env)
                 THEN /\ r2.pc = "request" /\ r2.flow = "device"
                      /\ deviceCodeAbortController' = a
                      /\ authorizationFlow' = authorizationFlow
                 ELSE /\ r2.pc = "open" /\ r2.flow = "browser"
                      /\ authorizationFlow' = a
                      /\ UNCHANGED <<deviceCodeAbortController, aborted>>
            /\ (host = "cli" /\ r.pc # "done" /\ r2.pc = "done" /\ r2.err # "none") =>
                 authorizationFlow' = 0 /\ deviceCodeAbortController' = 0]_vars

\* In a local environment the CLI's first sign-in took the browser flow and
\* failed while the second one waits for its redirect: the handler has
\* cancelled the handles.
C16_Witness ==
    /\ host = "cli" /\ ~isRemoteEnvironment(env)
    /\ attempt[1].flow = "browser" /\ attempt[1].outcome = "Failed"
    /\ attempt[2].pc = "callback"
    /\ authorizationFlow = 0 /\ deviceCodeAbortController = 0

\* C17 as stated: isRemoteEnvironment() returns true exactly when an
\* indicator variable is present in the environment, and changes no state.
C17_RemoteIffIndicatorPresent ==
    [][/\ isRemote' = "true" <=> \E n \in Indicators : env[n] # "unset"
       /\ UNCHANGED <<slider, host, deviceCodeAbortController, aborted, credentials, attempt,
                      env, authorizationFlow>>
       /\ UNCHANGED ui]_vars

\* C17, amended: isRemoteEnvironment() returns true exactly when an
\* indicator variable is set to a non-empty value (an indicator that is
\* present but empty does not count, nor does any other variable), and
\* changes no state.
C17_RemoteIffIndicatorNonEmpty ==
    [][/\ isRemote' = "true" <=> \E n \in Indicators : env[n] = "set"
       /\ isRemote' \in {"true", "false"}
       /\ UNCHANGED <<slider, host, deviceCodeAbortController, aborted, credentials, attempt,
                      env, authorizationFlow>>
       /\ UNCHANGED ui]_vars

\* The call returned false in an environment whose only indicator, SSH_TTY,
\* is present but empty.
C17_Witness ==
    /\ isRemote = "false"
    /\ env["SSH_TTY"] = "empty"
    /\ \A n \in Indicators \ {"SSH_TTY"} : env[n] = "unset"

\* C18: every sleep of a poll loop lasts the default polling interval, or,
\* when the provider stated an interval in the device-code answer of that
\* sign-in, that interval; and the loop's deadline is the default timeout
\* after its start.
C18_IntervalAndTimeout ==
    [][\A a \in Slots :
         LET r == attempt[a]
             r2 == attempt'[a]
         IN /\ (r.pc # "sleep" /\ r2.pc = "sleep") =>
                 r2.untilWake = Coalesce(r2.interval, pollingIntervalMs)
            /\ (r.pc \in {"request", "post"} /\ r2.pc = "sleep") =>
                 r2.untilDeadline = timeoutMs]_vars

\* C19: when sign-in A ends with the abort error because a later sign-in
\* was started (A held its own controller's signal), the cancel made by A's
\* error handler aborts no controller of a later sign-in.
C19_SupersededKeepsNewer ==
    [][\A a, b \in Slots :
         (/\ a < b
          /\ attempt[a].pc # "done" /\ attempt[a].signal = a
          /\ attempt'[a].pc = "done" /\ attempt'[a].err = "AbortError"
          /\ b \notin aborted) =>
            b \notin aborted']_vars

\* C20: while a poll loop runs on a signal that is not aborted, the
\* manager's deviceCodeAbortController is the controller of that signal.
C20_FieldIsRunningPoll ==
    \A a \in Slots :
        (Polling(attempt[a]) /\ attempt[a].signal \notin aborted) =>
            deviceCodeAbortController = attempt[a].signal

\* C21: every call of pollForDeviceAuthorization terminates: under fair
\* scheduling (SpecFair: a sign-in, its answers, the clock and the user's
\* cancel) a poll that sleeps, has a request in flight or awaits its
\* exchange eventually has returned or thrown, whatever the endpoints
\* answer.
C21_PollTerminates ==
    \A a \in Slots : Polling(attempt[a]) ~> ~Polling(attempt[a])

\* A poll has ended on its deadline after nothing but pending answers, the
\* longest run the timeout allows.
C21_Witness ==
    \E a \in Slots :
        /\ attempt[a].outcome = "Expired" /\ attempt[a].answer = 0
        /\ attempt[a].polls = attempt[a].pendings /\ attempt[a].polls >= TimeoutIntervals

\* C22: no poll request is issued once the deadline has passed: whenever a
\* poll sends a request, the time left until its deadline is positive.
C22_NoPollAfterDeadline ==
    [][\A a \in Slots :
         attempt'[a].polls > attempt[a].polls => attempt[a].untilDeadline > 0]_vars

\* C23: a call of waitForDeviceAuthorization that finds the manager without
\* a controller (none was made, or it was released by a cancel or by a
\* finished sign-in) throws 'No pending device code flow' at once: the
\* attempt ends Failed with no poll and no exchange request, and the step
\* leaves the credentials, the controller field, the aborted controllers
\* and the browser-flow handle as they were.
C23_WaitWithoutFlowFails ==
    [][\A a \in Slots :
         LET r == attempt[a]
             r2 == attempt'[a]
             waitCalled ==
                 \/ r.pc = "idle" /\ r2.pc \notin {"idle", "request", "open"}
                 \/ r.pc = "post" /\ r2.pc # "post"
                 \/ /\ host = "cli" /\ r.pc = "request"
                    /\ r2.reqStatus = 200 /\ r2.err # "MalformedDeviceCode"
         IN (waitCalled /\ deviceCodeAbortController = 0) =>
              /\ r2.pc = "done" /\ r2.err = "NoPendingFlow" /\ r2.outcome = "Failed"
              /\ r2.polls = 0 /\ r2.exchanges = 0
              /\ credentials' = credentials
              /\ deviceCodeAbortController' = 0 /\ aborted' = aborted
              /\ authorizationFlow' = authorizationFlow]_vars

\* The wait failed for want of a flow twice: called before any start, and
\* called by a sign-in whose flow was released while its device code was
\* on its way.
C23_Witness ==
    /\ attempt[1].err = "NoPendingFlow" /\ attempt[1].reqStatus = 0
    /\ attempt[2].err = "NoPendingFlow" /\ attempt[2].reqStatus = 200
    /\ attempt[2].polls = 0

\* C24: in the extension, while the latest sign-in polls for authorization
\* on a signal that is not aborted, controller.openAiCodexDeviceCode holds
\* that sign-in's user code; and the field is set to null only in a step
\* that ends the sign-in whose user code it held.
C24_DeviceCodeStateFollowsAttempt ==
    [][host = "ext" =>
         /\ \A a \in Slots :
               (/\ attempt'[a].pc \in {"sleep", "fetch"}
                /\ attempt'[a].signal \notin aborted'
                /\ \A b \in Slots : b > a => attempt'[b].pc = "idle") =>
                  openAiCodexDeviceCode' = DeviceCodeBody(a).user_code
         /\ (openAiCodexDeviceCode # 0 /\ openAiCodexDeviceCode' = 0) =>
               \E a \in Slots :
                   /\ DeviceCodeBody(a).user_code = openAiCodexDeviceCode
                   /\ attempt[a].pc # "done" /\ attempt'[a].pc = "done"]_vars

\* C25: after any sequence of toggle, slider and provider/model-change
\* events, effects included, the persisted thinking budget is 0 or lies
\* between DEFAULT_MIN_VALID_TOKENS and maxSliderValue inclusive.
C25_PersistedBudgetValid ==
    slider.mounted =>
        \/ slider.thinkingBudgetTokens = 0
        \/ /\ DEFAULT_MIN_VALID_TOKENS <= slider.thinkingBudgetTokens
           /\ slider.thinkingBudgetTokens
                 <= maxSliderValue(slider.maxBudget, slider.selection)

====
